---- MODULE Spec2Model ----
(***************************************************************************)
(* Model of sensor_parquet_ingest (src/main.py): CSV -> partitioned        *)
(* Parquet ingestion with a DuckDB ledger of processed files.              *)
(*                                                                         *)
(* State: the source files' modification times, the processed_files table, *)
(* the directories under PARQUET_ROOT, and the position and locals of each *)
(* thread that runs main's loop body (ingest_file).                        *)
(*                                                                         *)
(* ingest_file is cut at its I/O points: the ledger lookup (Check), the    *)
(* collect of the CSV with the read and merge of the directory (Load), the *)
(* unlink loop and mkdir (Delete), write_dataset (Write), the ledger       *)
(* upsert (Mark). What a CSV file holds is drawn when it is read.          *)
(*                                                                         *)
(* Specifications: Spec (one file; rewrites, failing writes, kills),       *)
(* SpecQuiet (two files, no fault), SpecConc (two threads), SpecScenario   *)
(* (the worked scenario), SpecLedger (two short files, times moving both   *)
(* ways, failing ledger), SpecRetry (one file, failing writes), SpecMerge  *)
(* (write_partitioned_parquet called on its own).                          *)
(*                                                                         *)
(* Within one behaviour all CSV headers have the same layout: a            *)
(* measurement column TAG1 and, if header_has_pid, a column parameter_id.  *)
(* Library behaviour the code relies on: polars unique() raises on a       *)
(* subset column the frame lacks and keeps an unspecified row of each key  *)
(* group (keep="any"); pyarrow write_dataset writes part-0.parquet.        *)
(***************************************************************************)
EXTENDS Integers, Sequences, FiniteSets, Bags, TLC

\* ------------------------------------------------------------------ bounds
MaxMtime == 2      \* st_mtime takes the values 1..MaxMtime
MaxRows == 2       \* data lines of one CSV file

\* ------------------------------------------------------------ input space
Files == {"Cond_a.csv", "Vib_b.csv"}
Vals == {"v1", "v2"}
Null == "null"
Pids == {"p1"}
NoCol == "-"
\* a Datetime is <<year, month, day>>
Datetimes == {<<2024, 1, 1>>, <<2024, 2, 1>>}
ScenarioDatetimes == {<<2024, 1, 1>>, <<2024, 1, 2>>, <<2024, 1, 3>>, <<2024, 1, 4>>, <<2024, 1, 5>>}

MainThread == "main"
Threads == {"main", "t2"}

\* main(): the dummy plant / machine codes handed to every ingest_file call
plant_code == "Tokyo1"
machine_code == "101"

Range(s) == {s[i] : i \in DOMAIN s}

SeqsUpTo(S, n) == UNION {[1..k -> S] : k \in 0..n}

\* ---------------------------------------------------------------- CSV side
\* A CSV file as read_pi_file sees it: the header's parameter ids (the
\* measurement column TAG1, and possibly a column named parameter_id) and
\* the data lines.
RawLines(dts, cells) == [Datetime : dts, TAG1 : cells, parameter_id : Pids]

CsvBodies(dts, cells, n) == [has_pid : BOOLEAN, lines : SeqsUpTo(RawLines(dts, cells), n)]

\* the files of the worked scenario: three data lines at three instants of
\* January 2024, in time order
ScenarioBodies ==
    [has_pid : BOOLEAN,
     lines : {s \in [1..3 -> [Datetime : ScenarioDatetimes, TAG1 : Vals, parameter_id : {"p1"}]] :
                s[1].Datetime[3] < s[2].Datetime[3] /\ s[2].Datetime[3] < s[3].Datetime[3]}]

NullDatetime == <<0, 0, 0>>

\* pl.all_horizontal(pl.all().is_not_null())
NotNullLine(l) == l.Datetime # NullDatetime /\ l.TAG1 # Null /\ l.parameter_id # Null

\* lf.filter(...): the lines without a null, in file order
DropNullLines(s) ==
    LET F[i \in 0..Len(s)] ==
            IF i = 0 THEN << >>
            ELSE IF NotNullLine(s[i]) THEN Append(F[i - 1], s[i]) ELSE F[i - 1]
    IN F[Len(s)]

\* read_pi_file: drop lines holding a null, add year and month taken from
\* Datetime; the parameter_id column exists only if the header names it.
read_pi_file(csv) ==
    LET kept == DropNullLines(csv.lines)
    IN [i \in DOMAIN kept |->
            [Datetime |-> kept[i].Datetime,
             TAG1 |-> kept[i].TAG1,
             parameter_id |-> IF csv.has_pid THEN kept[i].parameter_id ELSE NoCol,
             year |-> kept[i].Datetime[1],
             month |-> kept[i].Datetime[2]]]

\* load_csv_lazy: read_pi_file plus the literal plant_name / machine_no columns
load_csv_lazy(csv, plant, machine) ==
    LET lf == read_pi_file(csv)
    IN [i \in DOMAIN lf |->
            [Datetime |-> lf[i].Datetime,
             TAG1 |-> lf[i].TAG1,
             parameter_id |-> lf[i].parameter_id,
             year |-> lf[i].year,
             month |-> lf[i].month,
             plant_name |-> plant,
             machine_no |-> machine]]

\* the frames write_partitioned_parquet can be handed by any caller: the
\* columns of load_csv_lazy's result, without read_pi_file's filter (a null
\* Datetime has a null year and month, written 0)
FrameDatetimes == {<<2024, 1, 1>>, NullDatetime}

FrameVals == {"v1", Null}

MergeFrames(has_pid) ==
    LET lines == SeqsUpTo(RawLines(FrameDatetimes, FrameVals), MaxRows)
    IN {[i \in DOMAIN ls |->
            [Datetime |-> ls[i].Datetime,
             TAG1 |-> ls[i].TAG1,
             parameter_id |-> IF has_pid THEN ls[i].parameter_id ELSE NoCol,
             year |-> ls[i].Datetime[1],
             month |-> ls[i].Datetime[2],
             plant_name |-> plant_code,
             machine_no |-> machine_code]] : ls \in lines}

\* ----------------------------------------------------------- Parquet side
\* f"{month:02d}": the two decimal digits of the month
Pad2(m) == <<m \div 10, m % 10>>

\* _partition_dir: the path under PARQUET_ROOT, from the FIRST row of the frame
PartitionDirOf(row) ==
    [plant_name |-> row.plant_name, machine_no |-> row.machine_no,
     year |-> row.year, month |-> Pad2(row.month)]

\* _partition_dir, had it read the last row (df[...][-1])
_partition_dir_last_row(df) == PartitionDirOf(df[Len(df)])

_partition_dir(df) == PartitionDirOf(df[1])

PartDirs ==
    {[plant_name |-> plant_code, machine_no |-> machine_code,
      year |-> d[1], month |-> Pad2(d[2])] : d \in Datetimes \cup ScenarioDatetimes}

NoDir == [plant_name |-> "", machine_no |-> "", year |-> 0, month |-> <<0, 0>>]

BagOfSeq(s) == [r \in Range(s) |-> Cardinality({i \in DOMAIN s : s[i] = r})]

\* one directory under PARQUET_ROOT: whether it exists and its part-{i}.parquet
\* files (write_dataset names its single output part-0.parquet)
AbsentDir == [exists |-> FALSE, files |-> << >>]

\* ds.dataset(part_dir).collect(): the rows of all files of the directory
ReadRows(dir) ==
    LET R[i \in 0..Len(dir.files)] ==
            IF i = 0 THEN EmptyBag ELSE R[i - 1] (+) dir.files[i].rows
    IN R[Len(dir.files)]

\* the subset= of unique(): the partition columns, Datetime and parameter_id
DedupKey(r) == <<r.plant_name, r.machine_no, r.year, r.month, r.Datetime, r.parameter_id>>

\* DataFrame.unique(subset=..., keep="any"): one row of each key group survives,
\* and the library does not say which
UniqueResults(rows) ==
    LET S == BagToSet(rows)
        keys == {DedupKey(r) : r \in S}
    IN {SetToBag(T) : T \in {U \in SUBSET S :
            \A k \in keys : Cardinality({r \in U : DedupKey(r) = k}) = 1}}

\* polars.concat([existing, new_df]).unique(subset=[..., "parameter_id"]) on a
\* directory that exists (lines 164-172). Each outcome is <<ok, merged>>; ok is
\* FALSE when the expression raises:
\*   - concat raises when the two frames do not have the same columns;
\*   - unique raises ColumnNotFoundError when the frame has no parameter_id column;
\*   - a directory left without data files reads as a frame without columns, and
\*     whether concat accepts it depends on the library version: both are kept.
Raises == {<<FALSE, EmptyBag>>}

\* MergeExisting, had it taken the new frame alone (no concat with `existing`)
MergeNewOnly(dir, new_df, has_pid) == {<<TRUE, BagOfSeq(new_df)>>}

MergeExisting(dir, new_df, has_pid) ==
    LET new_rows == BagOfSeq(new_df)
        uniq(rows) == IF has_pid THEN {<<TRUE, m>> : m \in UniqueResults(rows)}
                      ELSE Raises
    IN IF dir.files = << >>
       THEN Raises \cup uniq(new_rows)
       ELSE IF \E i \in DOMAIN dir.files : dir.files[i].has_pid # has_pid
            THEN Raises
            ELSE uniq(ReadRows(dir) (+) new_rows)

\* write_partitioned_parquet, lines 160-174: the outcomes of computing `merged`
MergeOutcomes(dir, new_df, has_pid) ==
    IF dir.exists THEN MergeExisting(dir, new_df, has_pid)
    ELSE {<<TRUE, BagOfSeq(new_df)>>}

\* lines 177-180: unlink every *.parquet of the directory, then mkdir
DeleteOld(dir) == [exists |-> TRUE, files |-> << >>]

\* lines 183-188: write_dataset writes part-0.parquet, replacing a file of that name
WriteNew(dir, merged, has_pid) ==
    LET part0 == [has_pid |-> has_pid, rows |-> merged]
    IN [exists |-> TRUE,
        files |-> IF dir.files = << >> THEN <<part0>>
                  ELSE [dir.files EXCEPT ![1] = part0]]

\* ----------------------------------------------------------------- state
VARIABLES
    dataset,          \* the source folder: "single" (one file), "short" (two
                      \* files of at most one data line), "pair" (two files,
                      \* some cells empty), "scenario" (one file, the
                      \* scenario's bodies) or "none" (main is not run)
    header_has_pid,   \* whether the CSV headers name a column parameter_id
    mtime,            \* st_mtime of each source file, as the datetime that
                      \* datetime.fromtimestamp makes of it
    processed_files,  \* the ledger table: rows <<file_path, modified_time>>
    fs,               \* the directories under PARQUET_ROOT
    todo,             \* main(): the files the loop has not reached yet
    pc,               \* position of each thread inside main's loop body
    loc,              \* locals of each thread's ingest_file call
    ran               \* main() has been started at least once

vars == <<dataset, header_has_pid, mtime, processed_files, fs, todo, pc, loc, ran>>

\* fp .. merged: the locals of ingest_file and write_partitioned_parquet;
\* ledger0: the ledger when the call began; at: where the call raised;
\* read_at: the file's time when its lines were collected
NoLocals ==
    [fp |-> "", new_df |-> << >>, has_pid |-> FALSE, part_dir |-> NoDir,
     had |-> FALSE, existing |-> EmptyBag, merged |-> EmptyBag, ledger0 |-> {},
     at |-> "", read_at |-> 0]

InputBodies ==
    {b \in CASE dataset = "scenario" -> ScenarioBodies
              [] dataset = "pair" -> CsvBodies(Datetimes, Vals \cup {Null}, MaxRows)
              [] dataset = "short" -> CsvBodies(Datetimes, Vals, 1)
              [] OTHER -> CsvBodies(Datetimes, Vals, MaxRows) :
        b.has_pid = header_has_pid}

InitCommon ==
    /\ header_has_pid \in BOOLEAN
    /\ mtime = [f \in Files |-> 1]
    /\ processed_files = {}
    /\ fs = [d \in PartDirs |-> AbsentDir]
    /\ todo = << >>
    /\ pc = [t \in Threads |-> "idle"]
    /\ loc = [t \in Threads |-> NoLocals]
    /\ ran = FALSE

Init == dataset = "single" /\ InitCommon

InitPair == dataset = "pair" /\ InitCommon

InitScenario == dataset = "scenario" /\ InitCommon

InitShort == dataset = "short" /\ InitCommon

InitNone == dataset = "none" /\ InitCommon

\* ---------------------------------------------------------------- ledger
\* is_already_processed, had the SELECT said modified_time >= ?
is_processed_if_not_older(fp) ==
    \E e \in processed_files : e[1] = fp /\ e[2] >= mtime[fp]

\* is_already_processed: SELECT 1 ... WHERE file_path=? AND modified_time=?
is_already_processed(fp) == <<fp, mtime[fp]>> \in processed_files

\* mark_as_processed, had it been a plain INSERT into a table without a key
mark_by_insert(fp) == processed_files \cup {<<fp, mtime[fp]>>}

\* mark_as_processed: INSERT OR REPLACE on the primary key file_path, with the
\* st_mtime the file has when this statement runs
mark_as_processed(fp) ==
    {e \in processed_files : e[1] # fp} \cup {<<fp, mtime[fp]>>}

\* ----------------------------------------------------------------- main
\* search_csv_file: the CSV files under the source folder whose names hold one
\* of PATTERNS, in directory order (the scenario's folder holds one file)
search_csv_file ==
    IF dataset \in {"pair", "short"} THEN <<"Cond_a.csv", "Vib_b.csv">>
    ELSE <<"Cond_a.csv">>

RunOver(T) == \A t \in T : pc[t] = "raised" \/ (pc[t] = "idle" /\ todo = << >>)

\* main(), lines 211-216: list the CSV files (rglob gives them in any order)
StartRun(T) ==
    /\ RunOver(T)
    /\ todo' = search_csv_file
    /\ pc' = [t \in Threads |-> "idle"]
    /\ loc' = [t \in Threads |-> NoLocals]
    /\ ran' = TRUE
    /\ UNCHANGED <<dataset, header_has_pid, mtime, processed_files, fs>>

\* main(), lines 218-222 and ingest_file, lines 194-196: next file, connect
Take(t) ==
    /\ pc[t] = "idle"
    /\ todo # << >>
    /\ loc' = [loc EXCEPT ![t] = [NoLocals EXCEPT !.fp = Head(todo),
                                                  !.ledger0 = processed_files]]
    /\ todo' = Tail(todo)
    /\ pc' = [pc EXCEPT ![t] = "check"]
    /\ UNCHANGED <<dataset, header_has_pid, mtime, processed_files, fs, ran>>

\* ingest_file, lines 198-200
Check(t) ==
    /\ pc[t] = "check"
    /\ IF is_already_processed(loc[t].fp)
       THEN /\ pc' = [pc EXCEPT ![t] = "idle"]
            /\ loc' = [loc EXCEPT ![t] = NoLocals]
       ELSE /\ pc' = [pc EXCEPT ![t] = "load"]
            /\ UNCHANGED loc
    /\ UNCHANGED <<dataset, header_has_pid, mtime, processed_files, fs, todo, ran>>

\* an exception leaves ingest_file and main's loop: nothing catches it
\* (l: the frames of the traceback, kept until the next run)
Raise(t, l) ==
    /\ pc' = [pc EXCEPT ![t] = "raised"]
    /\ loc' = [loc EXCEPT ![t] = [l EXCEPT !.at = pc[t]]]

\* what is left of a call cut short from outside: which file it was at, and where
Killed(t) == [NoLocals EXCEPT !.fp = loc[t].fp, !.at = pc[t]]

\* write_partitioned_parquet, lines 164-174, for the frame and the directory
\* in l: read what the directory holds and compute `merged`, or raise
ReadAndMerge(t, l) ==
    LET dir == fs[l.part_dir]
        l1 == [l EXCEPT !.had = dir.exists /\ dir.files # << >>,
                        !.existing = ReadRows(dir)]
    IN \E o \in MergeOutcomes(dir, l.new_df, l.has_pid) :
         IF o[1]
         THEN /\ pc' = [pc EXCEPT ![t] = "delete"]
              /\ loc' = [loc EXCEPT ![t] =
                           [l1 EXCEPT !.merged = o[2],
                                      !.read_at = IF l.fp \in Files THEN mtime[l.fp]
                                                  ELSE 0]]
         ELSE Raise(t, l1)

\* Resolve, had _partition_dir answered PARQUET_ROOT for a frame without rows
\* and the unlink loop then globbed every *.parquet below it
ResolveEmptyAtRoot(t, l) ==
    IF l.new_df = << >>
    THEN /\ Raise(t, l)
         /\ fs' = [d \in PartDirs |-> IF fs[d].exists THEN DeleteOld(fs[d]) ELSE fs[d]]
    ELSE /\ IF l.new_df[1].Datetime = NullDatetime
            THEN Raise(t, l)
            ELSE ReadAndMerge(t, [l EXCEPT !.part_dir = _partition_dir(l.new_df)])
         /\ UNCHANGED fs

\* write_partitioned_parquet, lines 160-174, for the frame in l: resolve the
\* directory from the first row, then read and merge. df['plant_name'][0]
\* raises IndexError on a frame without rows, and f"{None:02d}" raises
\* TypeError when the first row's month is null.
Resolve(t, l) ==
    /\ IF l.new_df = << >>
       THEN Raise(t, l)
       ELSE IF l.new_df[1].Datetime = NullDatetime
            THEN Raise(t, l)
            ELSE ReadAndMerge(t, [l EXCEPT !.part_dir = _partition_dir(l.new_df)])
    /\ UNCHANGED fs

\* ingest_file line 202 and write_partitioned_parquet lines 160-174: collect the
\* CSV, resolve the directory from the first row, read and merge what is there
Load(t) ==
    /\ pc[t] = "load"
    /\ \E csv \in InputBodies :
         Resolve(t, [loc[t] EXCEPT !.new_df = load_csv_lazy(csv, plant_code, machine_code),
                                   !.has_pid = csv.has_pid])
    /\ UNCHANGED <<dataset, header_has_pid, mtime, processed_files, todo, ran>>

\* Delete, had it globbed the *.parquet of every directory under PARQUET_ROOT
DeleteEverywhere(t) ==
    /\ pc[t] = "delete"
    /\ fs' = [d \in PartDirs |-> IF fs[d].exists \/ d = loc[t].part_dir
                                 THEN DeleteOld(fs[d]) ELSE fs[d]]
    /\ pc' = [pc EXCEPT ![t] = "write"]
    /\ UNCHANGED <<dataset, header_has_pid, mtime, processed_files, todo, loc, ran>>

\* write_partitioned_parquet, lines 177-180
Delete(t) ==
    /\ pc[t] = "delete"
    /\ fs' = [fs EXCEPT ![loc[t].part_dir] = DeleteOld(@)]
    /\ pc' = [pc EXCEPT ![t] = "write"]
    /\ UNCHANGED <<dataset, header_has_pid, mtime, processed_files, todo, loc, ran>>

\* write_partitioned_parquet, lines 183-188
Write(t) ==
    /\ pc[t] = "write"
    /\ fs' = [fs EXCEPT ![loc[t].part_dir] = WriteNew(@, loc[t].merged, loc[t].has_pid)]
    /\ pc' = [pc EXCEPT ![t] = "mark"]
    /\ UNCHANGED <<dataset, header_has_pid, mtime, processed_files, todo, loc, ran>>

\* WriteFail, had ingest_file recorded the file in a `finally`
WriteFailRecorded(t) ==
    /\ pc[t] = "write"
    /\ Raise(t, Killed(t))
    /\ processed_files' = mark_as_processed(loc[t].fp)
    /\ UNCHANGED <<dataset, header_has_pid, mtime, fs, todo, ran>>

\* write_dataset raises (disk full, permission denied): nothing was written
WriteFail(t) ==
    /\ pc[t] = "write"
    /\ Raise(t, Killed(t))
    /\ UNCHANGED <<dataset, header_has_pid, mtime, processed_files, fs, todo, ran>>

\* ingest_file, lines 204-205: record the file, print INGESTED, return
Mark(t) ==
    /\ pc[t] = "mark"
    /\ processed_files' = mark_as_processed(loc[t].fp)
    /\ pc' = [pc EXCEPT ![t] = "idle"]
    /\ loc' = [loc EXCEPT ![t] = NoLocals]
    /\ UNCHANGED <<dataset, header_has_pid, mtime, fs, todo, ran>>

\* ------------------------------------------------------------ environment
\* a source file is rewritten: its st_mtime moves on
Touch(f) ==
    /\ f \in Range(search_csv_file)
    /\ mtime[f] < MaxMtime
    /\ mtime' = [mtime EXCEPT ![f] = @ + 1]
    /\ UNCHANGED <<dataset, header_has_pid, processed_files, fs, todo, pc, loc, ran>>

\* a source file gets an older st_mtime: restored from a backup, or replaced
\* by a copy that keeps its times (cp -p, rsync -t)
Backdate(f) ==
    /\ f \in Range(search_csv_file)
    /\ mtime[f] > 1
    /\ mtime' = [mtime EXCEPT ![f] = @ - 1]
    /\ UNCHANGED <<dataset, header_has_pid, processed_files, fs, todo, pc, loc, ran>>

\* LedgerFail, had ingest_file caught the error and taken the file as new
LedgerFailTakenAsNew(t) ==
    /\ pc[t] = "check"
    /\ pc' = [pc EXCEPT ![t] = "load"]
    /\ UNCHANGED <<dataset, header_has_pid, mtime, processed_files, fs, todo, loc, ran>>

\* ingest_file, lines 194-198: duckdb.connect, CREATE TABLE IF NOT EXISTS, the
\* PRAGMA or the SELECT of is_already_processed raises (the database file is
\* locked by another process, corrupt, or unreadable)
LedgerFail(t) ==
    /\ pc[t] = "check"
    /\ Raise(t, Killed(t))
    /\ UNCHANGED <<dataset, header_has_pid, mtime, processed_files, fs, todo, ran>>

\* write_partitioned_parquet called by a caller other than ingest_file, with a
\* frame of its own making
CallMerge(t) ==
    /\ pc[t] \in {"idle", "raised"}
    /\ \E df \in MergeFrames(header_has_pid) :
         Resolve(t, [NoLocals EXCEPT !.new_df = df, !.has_pid = header_has_pid])
    /\ UNCHANGED <<dataset, header_has_pid, mtime, processed_files, todo, ran>>

\* write_partitioned_parquet returns to that caller
ReturnMerge(t) ==
    /\ pc[t] = "mark"
    /\ loc[t].fp = ""
    /\ pc' = [pc EXCEPT ![t] = "idle"]
    /\ loc' = [loc EXCEPT ![t] = NoLocals]
    /\ UNCHANGED <<dataset, header_has_pid, mtime, processed_files, fs, todo, ran>>

InCall(t) == pc[t] \in {"check", "load", "delete", "write", "mark"}

\* the process is killed while ingest_file runs
Kill ==
    /\ \E t \in Threads : InCall(t)
    /\ pc' = [t \in Threads |-> IF InCall(t) THEN "raised" ELSE pc[t]]
    /\ todo' = << >>
    /\ loc' = [t \in Threads |-> IF InCall(t) THEN Killed(t) ELSE loc[t]]
    /\ UNCHANGED <<dataset, header_has_pid, mtime, processed_files, fs, ran>>

\* ingest_file from the loop's `for` to its return, without faults
Step(t) ==
    \/ Take(t)
    \/ Check(t)
    \/ Load(t)
    \/ Delete(t)
    \/ Write(t)
    \/ Mark(t)

\* main as written, on a folder of one file: the file is rewritten, writes
\* fail and the process is killed at any point
Next ==
    \/ StartRun({MainThread})
    \/ Step(MainThread)
    \/ WriteFail(MainThread)
    \/ \E f \in Files : Touch(f)
    \/ Kill

Spec == Init /\ [][Next]_vars

\* main as written on a folder of two files nobody touches, with no fault
NextQuiet ==
    \/ StartRun({MainThread})
    \/ Step(MainThread)

SpecQuiet == InitPair /\ [][NextQuiet]_vars

\* ingest_file called from several threads of one process, with no fault
NextConc ==
    \/ StartRun(Threads)
    \/ \E t \in Threads : Step(t)

SpecConc == InitPair /\ [][NextConc]_vars

\* the worked scenario's files, rewritten between runs, with no fault
NextScenario ==
    \/ StartRun({MainThread})
    \/ Step(MainThread)
    \/ \E f \in Files : Touch(f)

SpecScenario == InitScenario /\ [][NextScenario]_vars

\* main on a folder of two short files whose st_mtime moves both ways, with a
\* ledger that may fail
NextLedger ==
    \/ StartRun({MainThread})
    \/ Step(MainThread)
    \/ LedgerFail(MainThread)
    \/ \E f \in Files : Touch(f)
    \/ \E f \in Files : Backdate(f)

SpecLedger == InitShort /\ [][NextLedger]_vars

\* main run again and again on a folder of one file nobody touches, with
\* writes that may fail
NextRetry ==
    \/ StartRun({MainThread})
    \/ Step(MainThread)
    \/ WriteFail(MainThread)

SpecRetry == Init /\ [][NextRetry]_vars

\* write_partitioned_parquet on its own, called again and again with any frame
NextMerge ==
    \/ CallMerge(MainThread)
    \/ Delete(MainThread)
    \/ Write(MainThread)
    \/ ReturnMerge(MainThread)

SpecMerge == InitNone /\ [][NextMerge]_vars

\* ------------------------------------------------------------ properties
Stored(d) == ReadRows(fs[d])

\* the Dedup Key of a wide row: the Partition Key and the timestamp
WideKey(r) == <<r.plant_name, r.machine_no, r.year, r.month, r.Datetime>>

WideKeys(rows) == {WideKey(r) : r \in BagToSet(rows)}

\* the batch's records do not all carry the Partition Key of the first one
Mixed(df) == \E i \in DOMAIN df : PartitionDirOf(df[i]) # PartitionDirOf(df[1])

\* C1. Idempotence: once a run over an untouched source folder is over, a
\* second run skips every file (is_already_processed holds for each), and so
\* leaves the partitions as the first run left them. Stated for the batches
\* the merge is meant to accept: not empty, of one Partition Key.
C1_SecondRunSkipsAll ==
    (/\ ran
     /\ RunOver({MainThread})
     /\ pc[MainThread] = "raised" =>
            (loc[MainThread].new_df # << >> /\ ~Mixed(loc[MainThread].new_df)))
        => \A f \in Range(search_csv_file) : is_already_processed(f)

\* C2. Atomic replace: after a merge into a partition that held rows was cut
\* short once the deletion had begun, the partition reads as the pre-merge
\* rows or as the merged rows, never as anything else (never empty).
C2_AtomicReplace ==
    [][\A t \in Threads :
          (pc[t] = "write" /\ pc'[t] = "raised" /\ loc[t].had)
              => ReadRows(fs'[loc[t].part_dir]) \in {loc[t].existing, loc[t].merged}]_vars

\* C3. Last write wins: when write_partitioned_parquet has returned, every
\* Dedup Key shared by a stored row and one row of the batch is stored once,
\* with the row of the batch.
C3_LastWriteWins ==
    \A t \in Threads :
        pc[t] = "mark" =>
            \A i \in DOMAIN loc[t].new_df :
                LET r == loc[t].new_df[i]
                IN (/\ WideKey(r) \in WideKeys(loc[t].existing)
                    /\ \A j \in DOMAIN loc[t].new_df :
                           WideKey(loc[t].new_df[j]) = WideKey(r) => loc[t].new_df[j] = r)
                   => /\ r \in BagToSet(Stored(loc[t].part_dir))
                      /\ \A e \in BagToSet(Stored(loc[t].part_dir)) :
                             WideKey(e) = WideKey(r) => e = r
                      /\ CopiesIn(r, Stored(loc[t].part_dir)) = 1

\* C4. No partition stores two rows sharing a Dedup Key.
C4_UniqueDedupKey ==
    \A d \in PartDirs :
        /\ \A r \in BagToSet(Stored(d)) : CopiesIn(r, Stored(d)) = 1
        /\ \A r1, r2 \in BagToSet(Stored(d)) : WideKey(r1) = WideKey(r2) => r1 = r2

\* C5. Ledger after success: a file's ledger entry changes only in the step
\* that follows the return of its write_partitioned_parquet call, the
\* partition then holding the merged rows; and when the call raised or was
\* killed, the ledger is as it was when the file's ingestion started.
C5_LedgerAfterSuccess ==
    /\ [][\A t \in Threads :
            (pc[t] \in {"check", "load", "delete", "write", "mark"} /\ pc'[t] = "raised")
                => processed_files' = loc[t].ledger0]_vars
    /\ [][\A f \in Files :
            {e \in processed_files' : e[1] = f} # {e \in processed_files : e[1] = f}
                => \E t \in Threads :
                     /\ pc[t] = "mark" /\ pc'[t] = "idle" /\ loc[t].fp = f
                     /\ Stored(loc[t].part_dir) = loc[t].merged
                     /\ \A i \in DOMAIN loc[t].new_df :
                            WideKey(loc[t].new_df[i]) \in WideKeys(Stored(loc[t].part_dir))]_vars

C5_Witness ==
    \E t \in Threads :
        /\ pc[t] = "raised" /\ loc[t].at = "write"
        /\ ~is_already_processed(loc[t].fp)
        /\ processed_files # {}

\* C6. At most one merge per partition directory is between its read of the
\* existing rows and the end of its write, and when two ingestions into one
\* directory have both written, the directory holds the keys of both batches.
InSection(t) == pc[t] \in {"delete", "write"}

C6_OneMergePerPartition ==
    \A t1, t2 \in Threads :
        t1 # t2 =>
            /\ ~(InSection(t1) /\ InSection(t2) /\ loc[t1].part_dir = loc[t2].part_dir)
            /\ (pc[t1] = "mark" /\ pc[t2] = "mark" /\ loc[t1].part_dir = loc[t2].part_dir)
                 => \A i \in DOMAIN loc[t1].new_df :
                        WideKey(loc[t1].new_df[i]) \in WideKeys(Stored(loc[t1].part_dir))

\* C7. Partition isolation: in every step (a merge step, a failed write, a
\* kill), a directory changes only if it is the directory of the Partition
\* Key of the records being merged.
C7_PartitionIsolation ==
    [][\A d \in PartDirs :
          fs'[d] # fs[d] =>
              \E t \in Threads :
                  /\ pc[t] \in {"delete", "write"}
                  /\ d = PartitionDirOf(loc[t].new_df[1])]_vars

C7_Witness ==
    \E t \in Threads :
        /\ pc[t] = "mark"
        /\ loc[t].had
        /\ Stored(loc[t].part_dir) # loc[t].existing
        /\ \E d \in PartDirs : d # loc[t].part_dir /\ Stored(d) # EmptyBag

\* C8. The worked scenario: with (F1, T1) in the ledger, three rows stored
\* and F1 rewritten at T2 with one row of a stored key and two rows of new
\* keys, the ingestion does not raise (it gets to record (F1, T2)) and stores
\* four rows.
ScenarioCase(t) ==
    /\ loc[t].fp = "Cond_a.csv"
    /\ loc[t].ledger0 = {<<"Cond_a.csv", 1>>}
    /\ mtime["Cond_a.csv"] = 2
    /\ BagCardinality(loc[t].existing) = 3
    /\ Cardinality(WideKeys(loc[t].existing)) = 3
    /\ Len(loc[t].new_df) = 3
    /\ Cardinality({i \in DOMAIN loc[t].new_df :
                      WideKey(loc[t].new_df[i]) \in WideKeys(loc[t].existing)}) = 1

C8_Scenario ==
    \A t \in Threads :
        ScenarioCase(t) =>
            /\ pc[t] # "raised"
            /\ pc[t] = "mark" => BagCardinality(Stored(loc[t].part_dir)) = 4

\* C9. Mixed-key rejection: a batch whose records do not share one Partition
\* Key never gets to the deletion or the write.
C9_MixedKeyRejected ==
    \A t \in Threads :
        (loc[t].new_df # << >> /\ Mixed(loc[t].new_df))
            => pc[t] \notin {"write", "mark"}

\* C10. One record, one partition: every row stored in a directory carries
\* the Partition Key the directory's path encodes.
C10_RowsInOwnPartition ==
    \A d \in PartDirs : \A r \in BagToSet(Stored(d)) : PartitionDirOf(r) = d

\* C11. Failure isolation between files: a run of main ends only when every
\* file of the list has been attempted; an ingestion that raised leaves no
\* file of the list behind.
C11_FailureIsolation ==
    pc[MainThread] = "raised" => todo = << >>

\* C12. Exact-match skip test: the lookup of ingest_file answers "processed"
\* (the call returns with SKIP) if and only if the ledger holds an entry of the
\* file's path whose modified_time equals the file's time; an older or newer
\* stored time, or no entry, lets the ingestion go on; and the lookup changes
\* neither the ledger nor a partition.
C12_ExactMatchSkip ==
    [][\A t \in Threads :
          (pc[t] = "check" /\ pc'[t] \in {"idle", "load"})
              => /\ (pc'[t] = "idle") <=>
                        (\E e \in processed_files :
                            e[1] = loc[t].fp /\ e[2] = mtime[loc[t].fp])
                 /\ processed_files' = processed_files
                 /\ fs' = fs]_vars

C12_Witness ==
    \E t \in Threads :
        /\ pc[t] = "load"
        /\ \E e \in processed_files : e[1] = loc[t].fp /\ e[2] > mtime[loc[t].fp]

\* C13. Idempotent ledger upsert: the call of mark_as_processed leaves exactly
\* one entry of the file's path, with the file's time, whether or not the
\* path had an entry; the entries of other paths stay as they were; a call
\* that finds its own entry already there leaves the ledger identical; and no
\* step of the program takes a path out of the ledger.
C13_IdempotentUpsert ==
    /\ [][\A t \in Threads :
            (pc[t] = "mark" /\ pc'[t] = "idle")
                => LET fp == loc[t].fp
                   IN /\ {e \in processed_files' : e[1] = fp} = {<<fp, mtime[fp]>>}
                      /\ {e \in processed_files' : e[1] # fp}
                            = {e \in processed_files : e[1] # fp}
                      /\ <<fp, mtime[fp]>> \in processed_files
                            => processed_files' = processed_files]_vars
    /\ [][\A e \in processed_files :
            \E e2 \in processed_files' : e2[1] = e[1]]_vars

\* a second call with the arguments of an earlier one is about to run, next
\* to the entry of another path
C13_Witness ==
    \E t \in Threads :
        /\ pc[t] = "mark"
        /\ <<loc[t].fp, mtime[loc[t].fp]>> \in processed_files
        /\ \E e \in processed_files : e[1] # loc[t].fp

\* C14. No-op on empty input: the write_partitioned_parquet call that gets a
\* frame without rows creates, deletes and changes nothing under PARQUET_ROOT
\* and leaves the ledger as it was; the call is over with that step.
C14_EmptyInputNoOp ==
    [][\A t \in Threads :
          (pc[t] = "load" /\ pc'[t] # "load" /\ loc'[t].new_df = << >>)
              => /\ fs' = fs
                 /\ processed_files' = processed_files
                 /\ pc'[t] = "raised"]_vars

C14_Witness ==
    \E t \in Threads :
        /\ pc[t] = "raised" /\ loc[t].at = "load" /\ loc[t].new_df = << >>
        /\ \E d \in PartDirs : Stored(d) # EmptyBag
        /\ processed_files # {}

\* C15. Retry after failure: a file whose ingestion failed is ingested by the
\* next run when no fault occurs in it, also when its directory is there
\* already. On a folder of one untouched file the ledger has no entry exactly
\* as long as every ingestion of the file has failed, and a directory exists
\* before the deletion only if an earlier call made it: a call in that
\* situation does not raise while it reads and merges.
C15_RetryIngests ==
    \A t \in Threads :
        (/\ loc[t].fp \in Files
         /\ ~is_already_processed(loc[t].fp)
         /\ loc[t].new_df # << >> /\ ~Mixed(loc[t].new_df)
         /\ fs[loc[t].part_dir].exists)
            => ~(pc[t] = "raised" /\ loc[t].at = "load")

\* C16. Merge is a keyed union: when write_dataset has returned, the Dedup
\* Keys the directory stores are those it stored when the call read it
\* together with those of the batch: no stored key is gone, no other key
\* has come.
C16_KeyedUnion ==
    [][\A t \in Threads :
          (pc[t] = "write" /\ pc'[t] = "mark")
              => WideKeys(ReadRows(fs'[loc[t].part_dir]))
                    = WideKeys(loc[t].existing) \cup WideKeys(BagOfSeq(loc[t].new_df))]_vars

C16_Witness ==
    \E t \in Threads :
        /\ pc[t] = "mark"
        /\ WideKeys(loc[t].existing) \ WideKeys(BagOfSeq(loc[t].new_df)) # {}
        /\ WideKeys(BagOfSeq(loc[t].new_df)) \ WideKeys(loc[t].existing) # {}
        /\ WideKeys(BagOfSeq(loc[t].new_df)) \cap WideKeys(loc[t].existing) # {}
        /\ WideKeys(Stored(loc[t].part_dir))
              = WideKeys(loc[t].existing) \cup WideKeys(BagOfSeq(loc[t].new_df))

\* C17. Partition resolution, as the claim has it: the directory a call works
\* on is the path plant_id=<plant>/machine_id=<machine>/year=<year>/
\* month=<two digits> of the batch's Partition Key.
C17_SpecTemplate ==
    \A t \in Threads :
        pc[t] \in {"delete", "write", "mark"} =>
            LET r == loc[t].new_df[1]
            IN loc[t].part_dir =
                 [plant_id |-> r.plant_name, machine_id |-> r.machine_no,
                  year |-> r.year, month |-> <<r.month \div 10, r.month % 10>>]

\* C17, amended: the directory a call works on is the path
\* plant_name=<plant>/machine_no=<machine>/year=<year>/month=<two digits> of
\* the Partition Key of the batch's first row, whatever the other rows and the
\* measurement values are.
C17_PartitionPath ==
    \A t \in Threads :
        pc[t] \in {"delete", "write", "mark"} =>
            LET r == loc[t].new_df[1]
            IN loc[t].part_dir =
                 [plant_name |-> r.plant_name, machine_no |-> r.machine_no,
                  year |-> r.year, month |-> <<r.month \div 10, r.month % 10>>]

\* a batch of two rows of different months and values has been written
C17_Witness ==
    \E t \in Threads :
        /\ pc[t] = "mark"
        /\ Len(loc[t].new_df) = 2
        /\ loc[t].new_df[1].month # loc[t].new_df[2].month
        /\ loc[t].new_df[1].TAG1 # loc[t].new_df[2].TAG1
        /\ fs[loc[t].part_dir].exists

\* C18. Ledger failure is a hard stop: the step in which the connection or
\* the lookup raises changes no directory and no ledger entry; the file is
\* read and merged only after a lookup that answered "not processed"; and
\* once the call has raised, nothing changes until main is started again.
C18_LedgerFailStops ==
    /\ [][\A t \in Threads :
            (pc[t] = "check" /\ pc'[t] = "raised")
                => fs' = fs /\ processed_files' = processed_files]_vars
    /\ [][\A t \in Threads :
            (pc[t] = "check" /\ pc'[t] = "load")
                => ~is_already_processed(loc[t].fp)]_vars
    /\ [][(pc[MainThread] = "raised" /\ loc[MainThread].at = "check")
                => /\ pc'[MainThread] \in {"raised", "idle"}
                   /\ fs' = fs /\ processed_files' = processed_files]_vars

\* the ledger failed for a file that has an entry and rows stored
C18_Witness ==
    \E t \in Threads :
        /\ pc[t] = "raised" /\ loc[t].at = "check"
        /\ \E e \in processed_files : e[1] = loc[t].fp
        /\ \E d \in PartDirs : Stored(d) # EmptyBag

\* C19. Invalid-record rejection: a batch holding a record with a null
\* measurement or a null timestamp never gets to the deletion or the write of
\* write_partitioned_parquet, and no directory stores such a row.
HasNull(df) == \E i \in DOMAIN df : df[i].TAG1 = Null \/ df[i].Datetime = NullDatetime

C19_InvalidRecordRejected ==
    /\ \A t \in Threads : HasNull(loc[t].new_df) => pc[t] \notin {"write", "mark"}
    /\ \A d \in PartDirs : \A r \in BagToSet(Stored(d)) :
            r.TAG1 # Null /\ r.Datetime # NullDatetime

\* C20. Ledger mtime matches ingested content: the modified_time that
\* mark_as_processed records for a file is the time the file had when its
\* lines were collected and merged, also when the file is rewritten between
\* the collect and the ledger update.
C20_LedgerTimeOfContent ==
    [][\A t \in Threads :
          (pc[t] = "mark" /\ pc'[t] = "idle" /\ loc[t].fp \in Files)
              => <<loc[t].fp, loc[t].read_at>> \in processed_files']_vars

====
